---- MODULE Spec2Model ----
(***************************************************************************)
(* State-machine model of the sprite-sheet slicer (src/unnamed/part_001,   *)
(* the App component): grid dividers, derived frames, pointer interaction, *)
(* batch frame mutation and sequence reordering.                           *)
(*                                                                         *)
(* Numbers.  Normalized divider positions are kept in units of 1/Scale, so *)
(* 1.0 is Scale and 0.01 is Eps.  Frame rectangles (p * imgWidth) are kept *)
(* in units of 1/Scale pixel; pointer coordinates are whole canvas pixels  *)
(* and are multiplied by Scale where the code compares them to a frame.    *)
(* Arithmetic is exact (no floating-point rounding).  NaN stands for both  *)
(* JavaScript's NaN and for `undefined` read out of an array, which every  *)
(* use in the code turns into NaN by arithmetic.                           *)
(*                                                                         *)
(* Rendering.  A handler's state updates are applied in one render (React  *)
(* batching), and the effects of that render (lines 75-87) run before the  *)
(* next event: each action is a handler together with the effects it       *)
(* triggers.  The canvas is redrawn to the displayed image's size with     *)
(* every render (drawEditor, lines 403-406); pointer events are modelled   *)
(* from the first draw on.  Image decoding is asynchronous: ImgLoaded is   *)
(* the load callback.                                                      *)
(***************************************************************************)
EXTENDS Integers, Sequences, FiniteSets, TLC

VARIABLES
    sourceImage,       \* 0 (null) or the id of the chosen image
    img,               \* imgRef.current: [src, shown, loading]
    onloadDividers,    \* dividers captured by the img.onload closure (line 79)
    grid,              \* [rows, cols]
    dividers,          \* [v, h]: sequences of normalized positions
    frames,            \* sequence of FrameConfig records, raster order
    selectedFrameIds,  \* sequence of frame ids
    dragTarget,        \* [type, index], type "none" when null
    hoverTarget,       \* [type, index], type "none" when null
    selectionBox,      \* [set, startX, startY, currentX, currentY]
    isSelecting,       \* BOOLEAN
    fps,               \* the number in the FPS input
    isPlaying,         \* BOOLEAN
    previewFrameIndex, \* index into activeFrames shown by the preview
    interval,          \* the timer of the preview loop: [on, length, fps]
    isGenerating,      \* BOOLEAN
    generation,        \* the generateSpriteSheet promise: "idle" or "pending"
    errorMsg,          \* "" (null) or the message of the last failed generation
    isExporting,       \* BOOLEAN
    gifExport,         \* handleExportGif in flight: "none", "fetching", "rendering"
    ev,                \* the last event handled and its arguments
    steps              \* the number of events handled so far

vars == <<sourceImage, img, onloadDividers, grid, dividers, frames,
          selectedFrameIds, dragTarget, hoverTarget, selectionBox,
          isSelecting, fps, isPlaying, previewFrameIndex, interval,
          isGenerating, generation, errorMsg, isExporting, gifExport, ev, steps>>

----------------------------------------------------------------------------
(* Bounds of the model *)

\* Row/column counts typed into the grid inputs range over -1..MaxGridInput.
MaxGridInput == 3
\* A behaviour handles at most MaxSteps events (handler or callback runs).
MaxSteps == 6

----------------------------------------------------------------------------
(* Numbers *)

Scale == 84 * 100
Eps == Scale \div 100
NaN == 0 - Scale * Scale
HIT_TOLERANCE == 12
MIN_COUNT == 1
MAX_COUNT == 20
CLICK_DIST == 5
DEFAULT_FPS == 8

IsNaN(a) == a = NaN
Add(a, b) == IF IsNaN(a) \/ IsNaN(b) THEN NaN ELSE a + b
Sub(a, b) == IF IsNaN(a) \/ IsNaN(b) THEN NaN ELSE a - b
Times(a, b) == IF IsNaN(a) \/ IsNaN(b) THEN NaN ELSE a * b
Gt(a, b) == ~IsNaN(a) /\ ~IsNaN(b) /\ a > b
Lt(a, b) == ~IsNaN(a) /\ ~IsNaN(b) /\ a < b
Ge(a, b) == ~IsNaN(a) /\ ~IsNaN(b) /\ a >= b
MathMax(a, b) == IF IsNaN(a) \/ IsNaN(b) THEN NaN ELSE IF a >= b THEN a ELSE b
MathMin(a, b) == IF IsNaN(a) \/ IsNaN(b) THEN NaN ELSE IF a <= b THEN a ELSE b
MathAbs(a) == IF IsNaN(a) THEN NaN ELSE IF a < 0 THEN 0 - a ELSE a

\* arr[i] with a 0-based index; out of range reads undefined
At(arr, i) == IF i >= 0 /\ i < Len(arr) THEN arr[i + 1] ELSE NaN
\* copy = [...arr]; copy[i] = val  (a write past the end leaves holes)
Put(arr, i, val) ==
    LET n == IF i + 1 > Len(arr) THEN i + 1 ELSE Len(arr)
    IN [k \in 1..n |-> IF k = i + 1 THEN val
                       ELSE IF k <= Len(arr) THEN arr[k] ELSE NaN]

MinOf(S) == CHOOSE m \in S : \A n \in S : m <= n

----------------------------------------------------------------------------
(* The images a user can load, and the image element *)

Images == {1, 2}
ImgWidth(i) == CASE i = 1 -> 120 [] i = 2 -> 60 [] OTHER -> 0
ImgHeight(i) == CASE i = 1 -> 60 [] i = 2 -> 120 [] OTHER -> 0

NoImg == [src |-> 0, shown |-> 0, loading |-> FALSE]
\* img.src = url with the element still reporting the old image as complete
SetSrcStaysComplete(im, i) == [src |-> i, shown |-> im.shown, loading |-> FALSE]
\* img.src = url (line 78): the new image decodes while the old one is shown
SetSrc(im, i) == [src |-> i, shown |-> im.shown, loading |-> TRUE]
\* imgRef.current.complete && imgRef.current.src (line 90)
ImgReady(im) == ~im.loading /\ im.src # 0

None == [type |-> "none", index |-> 0]
NoBox == [set |-> FALSE, startX |-> 0, startY |-> 0, currentX |-> 0, currentY |-> 0]
NoInterval == [on |-> FALSE, length |-> 0, fps |-> 0]

----------------------------------------------------------------------------
(* Grid logic *)

\* resetDividers rebuilding an axis only when its count changed
resetChangedAxis(rows, cols) ==
    [v |-> IF Len(dividers.v) = cols - 1 THEN dividers.v
           ELSE [i \in 1..(cols - 1) |-> (i * Scale) \div cols],
     h |-> IF Len(dividers.h) = rows - 1 THEN dividers.h
           ELSE [i \in 1..(rows - 1) |-> (i * Scale) \div rows]]

resetDividers(rows, cols) ==
    [v |-> [i \in 1..(cols - 1) |-> (i * Scale) \div cols],
     h |-> [i \in 1..(rows - 1) |-> (i * Scale) \div rows]]

ClampCount(val) ==
    LET lo == IF MAX_COUNT <= val THEN MAX_COUNT ELSE val
    IN IF MIN_COUNT >= lo THEN MIN_COUNT ELSE lo

\* the frame list built column by column
NewFramesColumnMajor(prev, divs, imgWidth, imgHeight) ==
    LET xPoints == <<0>> \o [i \in 1..Len(divs.v) |-> Times(divs.v[i], imgWidth)]
                        \o <<Scale * imgWidth>>
        yPoints == <<0>> \o [i \in 1..Len(divs.h) |-> Times(divs.h[i], imgHeight)]
                        \o <<Scale * imgHeight>>
        nc == Len(xPoints) - 1
        nr == Len(yPoints) - 1
    IN [k \in 1..(nr * nc) |->
          LET idCounter == k - 1
              r == (k - 1) % nr
              c == (k - 1) \div nr
              x == xPoints[c + 1]
              y == yPoints[r + 1]
              found == {j \in 1..Len(prev) : prev[j].row = r /\ prev[j].col = c}
              has == found # {}
              existing == prev[MinOf(found)]
          IN [id |-> idCounter, row |-> r, col |-> c,
              x |-> x, y |-> y,
              width |-> Sub(xPoints[c + 2], x),
              height |-> Sub(yPoints[r + 2], y),
              offsetX |-> IF has THEN existing.offsetX ELSE 0,
              offsetY |-> IF has THEN existing.offsetY ELSE 0,
              active |-> IF has THEN existing.active ELSE TRUE,
              sequenceOrder |-> IF has THEN existing.sequenceOrder ELSE idCounter]]

NewFrames(prev, divs, imgWidth, imgHeight) ==
    LET xPoints == <<0>> \o [i \in 1..Len(divs.v) |-> Times(divs.v[i], imgWidth)]
                        \o <<Scale * imgWidth>>
        yPoints == <<0>> \o [i \in 1..Len(divs.h) |-> Times(divs.h[i], imgHeight)]
                        \o <<Scale * imgHeight>>
        nc == Len(xPoints) - 1
        nr == Len(yPoints) - 1
    IN [k \in 1..(nr * nc) |->
          LET idCounter == k - 1
              r == (k - 1) \div nc
              c == (k - 1) % nc
              x == xPoints[c + 1]
              y == yPoints[r + 1]
              found == {j \in 1..Len(prev) : prev[j].row = r /\ prev[j].col = c}
              has == found # {}
              existing == prev[MinOf(found)]
          IN [id |-> idCounter, row |-> r, col |-> c,
              x |-> x, y |-> y,
              width |-> Sub(xPoints[c + 2], x),
              height |-> Sub(yPoints[r + 2], y),
              offsetX |-> IF has THEN existing.offsetX ELSE 0,
              offsetY |-> IF has THEN existing.offsetY ELSE 0,
              active |-> IF has THEN existing.active ELSE TRUE,
              sequenceOrder |-> IF has THEN existing.sequenceOrder ELSE idCounter]]

\* calculateFrames that looks no frame up in the previous list
calculateFramesFresh(prev, sel, divs, im) ==
    IF ~ImgReady(im)
    THEN [frames |-> prev, selectedFrameIds |-> sel]
    ELSE [frames |-> NewFrames(<<>>, divs, ImgWidth(im.shown), ImgHeight(im.shown)),
          selectedFrameIds |-> <<>>]

\* calculateFrames without line 133
calculateFramesKeepSelection(prev, sel, divs, im) ==
    IF ~ImgReady(im)
    THEN [frames |-> prev, selectedFrameIds |-> sel]
    ELSE [frames |-> NewFrames(prev, divs, ImgWidth(im.shown), ImgHeight(im.shown)),
          selectedFrameIds |-> sel]

\* calculateFrames without the guard of line 90
calculateFramesUnguarded(prev, sel, divs, im) ==
    [frames |-> NewFrames(prev, divs, ImgWidth(im.shown), ImgHeight(im.shown)),
     selectedFrameIds |-> <<>>]

\* calculateFrames as a function of what it reads: the new frames and selection
calculateFrames(prev, sel, divs, im) ==
    IF ~ImgReady(im)
    THEN [frames |-> prev, selectedFrameIds |-> sel]
    ELSE [frames |-> NewFrames(prev, divs, ImgWidth(im.shown), ImgHeight(im.shown)),
          selectedFrameIds |-> <<>>]

\* The effect of lines 85-87 after a render in which dividers or sourceImage changed
Derive(divs, im) ==
    LET res == calculateFrames(frames, selectedFrameIds, divs, im)
    IN /\ frames' = res.frames
       /\ selectedFrameIds' = res.selectedFrameIds

\* The record of the event being handled: the handler (kind), the branch it
\* takes or the axis it is given (type), its arguments (x, y) and the number
\* of frames selected (n) and the preview index (i) when it arrives.
Event(kind, type, x, y) ==
    [kind |-> kind, type |-> type, x |-> x, y |-> y, n |-> Len(selectedFrameIds),
     i |-> previewFrameIndex]

\* every handler run counts as one step of the bounded behaviour
Tick == steps < MaxSteps /\ steps' = steps + 1

----------------------------------------------------------------------------
(* Derived state *)

\* position of frame j in the stable sort of the active frames by sequenceOrder
SeqBefore(fs, k, j) ==
    \/ fs[k].sequenceOrder < fs[j].sequenceOrder
    \/ fs[k].sequenceOrder = fs[j].sequenceOrder /\ k < j

\* the sort of the active frames with equal sequenceOrder values in reverse
\* list order
SortedActiveTiesReversed(fs) ==
    LET act == {j \in 1..Len(fs) : fs[j].active}
        before(k, j) == \/ fs[k].sequenceOrder < fs[j].sequenceOrder
                        \/ fs[k].sequenceOrder = fs[j].sequenceOrder /\ k > j
        rank(j) == Cardinality({k \in act : before(k, j)})
    IN [n \in 1..Cardinality(act) |-> fs[CHOOSE j \in act : rank(j) = n - 1]]

SortedActive(fs) ==
    LET act == {j \in 1..Len(fs) : fs[j].active}
        rank(j) == Cardinality({k \in act : SeqBefore(fs, k, j)})
    IN [n \in 1..Cardinality(act) |-> fs[CHOOSE j \in act : rank(j) = n - 1]]

activeFrames == SortedActive(frames)

\* activeFrameMap of drawEditor (line 415): the 1-based sequence number drawn
\* on each frame id of the playback order (a later entry of the same id
\* replaces an earlier one)
activeFrameMap ==
    LET order == activeFrames \o <<>>
    IN [id \in {order[n].id : n \in 1..Len(order)} |->
          LET at == {n \in 1..Len(order) : order[n].id = id}
          IN CHOOSE n \in at : \A m \in at : m <= n]

\* the frames the GIF export (line 259) and the PNG export (line 312) walk
\* through, in order
ExportFrames == activeFrames

\* arr.findIndex(pred) + 1 over a sequence, 0 when none (pred given as a set of positions)
FirstIn(S) == IF S = {} THEN 0 ELSE MinOf(S)

Includes(seq, x) == \E k \in 1..Len(seq) : seq[k] = x

----------------------------------------------------------------------------
(* Preview loop and preview renderer *)

\* activeFrames.length of a frame list
ActiveCount(fs) == Cardinality({j \in 1..Len(fs) : fs[j].active})

\* the updater of line 359 without the remainder
NextIndexNoWrap(current, length) == current + 1

\* the updater of line 359, with the length the interval's closure holds
NextIndex(current, length) == (current + 1) % length

\* the preview loop effect keeping its interval when it returns at line 352
PreviewLoopNoCleanup(playing, f, fs) ==
    LET length == ActiveCount(fs)
        changed == playing # isPlaying \/ f # fps \/ length # ActiveCount(frames)
    IN IF ~changed \/ ~playing \/ length = 0
       THEN UNCHANGED <<previewFrameIndex, interval>>
       ELSE /\ previewFrameIndex' = IF previewFrameIndex >= length THEN 0
                                     ELSE previewFrameIndex
            /\ interval' = [on |-> TRUE, length |-> length, fps |-> f]

\* the preview loop effect starting every new interval at index 0
PreviewLoopFromZero(playing, f, fs) ==
    LET length == ActiveCount(fs)
        changed == playing # isPlaying \/ f # fps \/ length # ActiveCount(frames)
    IN IF ~changed
       THEN UNCHANGED <<previewFrameIndex, interval>>
       ELSE IF ~playing \/ length = 0
       THEN /\ previewFrameIndex' = previewFrameIndex
            /\ interval' = NoInterval
       ELSE /\ previewFrameIndex' = 0
            /\ interval' = [on |-> TRUE, length |-> length, fps |-> f]

\* the preview loop effect without lines 354-356
PreviewLoopNoReset(playing, f, fs) ==
    LET length == ActiveCount(fs)
        changed == playing # isPlaying \/ f # fps \/ length # ActiveCount(frames)
    IN IF ~changed
       THEN UNCHANGED <<previewFrameIndex, interval>>
       ELSE IF ~playing \/ length = 0
       THEN /\ previewFrameIndex' = previewFrameIndex
            /\ interval' = NoInterval
       ELSE /\ previewFrameIndex' = previewFrameIndex
            /\ interval' = [on |-> TRUE, length |-> length, fps |-> f]

\* The effect of lines 351-363 in the render that has playing, f and fs as
\* isPlaying, fps and frames.  It runs when one of its dependencies changed:
\* the cleanup of the previous run clears the interval, the new run resets
\* an out-of-range index and starts an interval that captures length and f.
PreviewLoop(playing, f, fs) ==
    LET length == ActiveCount(fs)
        changed == playing # isPlaying \/ f # fps \/ length # ActiveCount(frames)
    IN IF ~changed
       THEN UNCHANGED <<previewFrameIndex, interval>>
       ELSE IF ~playing \/ length = 0
       THEN /\ previewFrameIndex' = previewFrameIndex
            /\ interval' = NoInterval
       ELSE /\ previewFrameIndex' = IF previewFrameIndex >= length THEN 0
                                     ELSE previewFrameIndex
            /\ interval' = [on |-> TRUE, length |-> length, fps |-> f]

\* a render caused by a handler that leaves fps and isPlaying alone
Rerender(fs) ==
    /\ UNCHANGED <<fps, isPlaying>>
    /\ PreviewLoop(isPlaying, fps, fs)

\* a handler that leaves generation and export alone
JobsIdle == UNCHANGED <<isGenerating, generation, errorMsg, isExporting, gifExport>>

\* a render in which no dependency of the preview loop changed
PreviewIdle == UNCHANGED <<fps, isPlaying, previewFrameIndex, interval>>

\* safeIndex of the preview renderer (line 633), -1 when nothing is drawn
\* from the sequence (line 626)
safeIndex ==
    IF Len(activeFrames) = 0 THEN 0 - 1 ELSE previewFrameIndex % Len(activeFrames)

----------------------------------------------------------------------------
(* Canvas geometry *)

CanvasW == ImgWidth(img.shown)
CanvasH == ImgHeight(img.shown)
CanvasDrawn == sourceImage # 0 /\ Len(frames) > 0

\* pointer positions (canvas pixels) a user event may carry
Points ==
    {<<0, 0>>, <<3, 0>>, <<(2 * CanvasW) \div 3, CanvasH>>, <<CanvasW, CanvasH>>,
     <<0, (3 * CanvasH) \div 4>>, <<CanvasW \div 2, CanvasH \div 2>>}

\* getSelectionRect anchored at the start corner instead of the min corner
getSelectionRectFromStart(box) ==
    [x |-> box.startX,
     y |-> box.startY,
     width |-> MathAbs(box.currentX - box.startX),
     height |-> MathAbs(box.currentY - box.startY)]

getSelectionRect(box) ==
    [x |-> IF box.startX <= box.currentX THEN box.startX ELSE box.currentX,
     y |-> IF box.startY <= box.currentY THEN box.startY ELSE box.currentY,
     width |-> MathAbs(box.currentX - box.startX),
     height |-> MathAbs(box.currentY - box.startY)]

\* a rectangle given in canvas pixels, in the unit of the frame rectangles
Scaled(r) == [x |-> r.x * Scale, y |-> r.y * Scale,
              width |-> r.width * Scale, height |-> r.height * Scale]

\* Le completes the comparisons of the Numbers section
Le(a, b) == ~IsNaN(a) /\ ~IsNaN(b) /\ a <= b

\* isIntersecting with touching rectangles apart
isIntersectingOpen(r1, r2) ==
    ~(\/ Ge(r2.x, Add(r1.x, r1.width))
      \/ Le(Add(r2.x, r2.width), r1.x)
      \/ Ge(r2.y, Add(r1.y, r1.height))
      \/ Le(Add(r2.y, r2.height), r1.y))

isIntersecting(r1, r2) ==
    ~(\/ Gt(r2.x, Add(r1.x, r1.width))
      \/ Lt(Add(r2.x, r2.width), r1.x)
      \/ Gt(r2.y, Add(r1.y, r1.height))
      \/ Lt(Add(r2.y, r2.height), r1.y))

\* the predicate of frames.find with the far edges inside the frame
ContainsPointClosed(f, x, y) ==
    /\ Ge(x * Scale, f.x) /\ Le(x * Scale, Add(f.x, f.width))
    /\ Ge(y * Scale, f.y) /\ Le(y * Scale, Add(f.y, f.height))

\* the predicate of frames.find in handleMouseUp (lines 586-589)
ContainsPoint(f, x, y) ==
    /\ Ge(x * Scale, f.x) /\ Lt(x * Scale, Add(f.x, f.width))
    /\ Ge(y * Scale, f.y) /\ Lt(y * Scale, Add(f.y, f.height))

ClickSelection(fs, x, y) ==
    LET k == FirstIn({j \in 1..Len(fs) : ContainsPoint(fs[j], x, y)})
    IN IF k # 0 THEN <<fs[k].id>> ELSE <<>>

\* frames.filter(f => isIntersecting(selRect, f)).map(f => f.id)
MarqueeSelection(fs, box) ==
    LET selRect == Scaled(getSelectionRect(box))
        hit == {j \in 1..Len(fs) : isIntersecting(selRect, fs[j])}
        nth(n) == CHOOSE j \in hit : Cardinality({k \in hit : k < j}) = n - 1
    IN [n \in 1..Cardinality(hit) |-> fs[nth(n)].id]

IsClick(box, x, y) ==
    (x - box.startX) * (x - box.startX) + (y - box.startY) * (y - box.startY)
        < CLICK_DIST * CLICK_DIST

\* the selection of handleMouseUp with every hit listed twice
UpSelectionTwice(fs, box, x, y) ==
    IF IsClick(box, x, y)
    THEN ClickSelection(fs, x, y) \o ClickSelection(fs, x, y)
    ELSE MarqueeSelection(fs, box) \o MarqueeSelection(fs, box)

\* the selection handleMouseUp computes in selecting mode (lines 582-599)
UpSelection(fs, box, x, y) ==
    IF IsClick(box, x, y)
    THEN ClickSelection(fs, x, y)
    ELSE MarqueeSelection(fs, box)

\* the hit test with the horizontal dividers checked first
HitTestHorizontalFirst(divs, x, y) ==
    LET vHit == {i \in 1..Len(divs.v) :
                    Lt(MathAbs(Sub(x * Scale, Times(divs.v[i], CanvasW))), HIT_TOLERANCE * Scale)}
        hHit == {i \in 1..Len(divs.h) :
                    Lt(MathAbs(Sub(y * Scale, Times(divs.h[i], CanvasH))), HIT_TOLERANCE * Scale)}
    IN IF hHit # {} THEN [type |-> "h", index |-> MinOf(hHit) - 1]
       ELSE IF vHit # {} THEN [type |-> "v", index |-> MinOf(vHit) - 1]
       ELSE None

\* the hit test of handleMouseMove (lines 555-572)
HitTest(divs, x, y) ==
    LET vHit == {i \in 1..Len(divs.v) :
                    Lt(MathAbs(Sub(x * Scale, Times(divs.v[i], CanvasW))), HIT_TOLERANCE * Scale)}
        hHit == {i \in 1..Len(divs.h) :
                    Lt(MathAbs(Sub(y * Scale, Times(divs.h[i], CanvasH))), HIT_TOLERANCE * Scale)}
    IN IF vHit # {} THEN [type |-> "v", index |-> MinOf(vHit) - 1]
       ELSE IF hHit # {} THEN [type |-> "h", index |-> MinOf(hHit) - 1]
       ELSE None

\* the clamped position written by a drag step (lines 531-534, 539-542)
DragPos(arr, index, newPos) ==
    LET prevLimit == IF index = 0 THEN 0 ELSE At(arr, index - 1)
        nextLimit == IF index = Len(arr) - 1 THEN Scale ELSE At(arr, index + 1)
    IN MathMax(Add(prevLimit, Eps), MathMin(Sub(nextLimit, Eps), newPos))

DragDividers(divs, target, x, y) ==
    IF target.type = "v"
    THEN [divs EXCEPT !.v = Put(divs.v, target.index,
                                DragPos(divs.v, target.index, (x * Scale) \div CanvasW))]
    ELSE [divs EXCEPT !.h = Put(divs.h, target.index,
                                DragPos(divs.h, target.index, (y * Scale) \div CanvasH))]

----------------------------------------------------------------------------
(* Initial state: the useState initializers, lines 28-51 *)

Init ==
    /\ sourceImage = 0
    /\ img = NoImg
    /\ onloadDividers = [v |-> <<>>, h |-> <<>>]
    /\ grid = [rows |-> 3, cols |-> 3]
    /\ dividers = [v |-> <<(33 * Scale) \div 100, (66 * Scale) \div 100>>,
                   h |-> <<(33 * Scale) \div 100, (66 * Scale) \div 100>>]
    /\ frames = <<>>
    /\ selectedFrameIds = <<>>
    /\ dragTarget = None
    /\ hoverTarget = None
    /\ selectionBox = NoBox
    /\ isSelecting = FALSE
    /\ fps = DEFAULT_FPS
    /\ isPlaying = TRUE
    /\ previewFrameIndex = 0
    /\ interval = NoInterval
    /\ isGenerating = FALSE
    /\ generation = "idle"
    /\ errorMsg = ""
    /\ isExporting = FALSE
    /\ gifExport = "none"
    /\ ev = [kind |-> "init", type |-> "", x |-> 0, y |-> 0, n |-> 0, i |-> 0]
    /\ steps = 0

----------------------------------------------------------------------------
(* Image source *)

\* Event types of the image source: an upload is a "supersede" when it
\* replaces a source that is still loading, and the load that follows it
\* directly is the "last" one.

\* FileReader.onload of handleFileUpload (lines 204-211) and the effects of
\* lines 75-87 of the render it causes
Upload(i) ==
    /\ Tick
    /\ LET newImg == IF i # sourceImage THEN SetSrc(img, i) ELSE img
           newDiv == resetDividers(3, 3)
       IN /\ sourceImage' = i
          /\ img' = newImg
          /\ onloadDividers' = IF i # sourceImage THEN newDiv ELSE onloadDividers
          /\ grid' = [rows |-> 3, cols |-> 3]
          /\ dividers' = newDiv
          /\ Derive(newDiv, newImg)
    /\ ev' = Event("upload",
                   IF img.loading /\ i # sourceImage THEN "supersede" ELSE "",
                   i, 0)
    /\ Rerender(frames')
    /\ JobsIdle
    /\ UNCHANGED <<dragTarget, hoverTarget, selectionBox, isSelecting>>

\* img.onload (lines 79-81): calculateFrames of the render that set the source
ImgLoaded ==
    /\ Tick
    /\ img.loading
    /\ LET newImg == [src |-> img.src, shown |-> img.src, loading |-> FALSE]
       IN /\ img' = newImg
          /\ Derive(onloadDividers, newImg)
    /\ ev' = Event("load",
                   IF ev.kind = "upload" /\ ev.type = "supersede" THEN "last"
                   ELSE "",
                   0, 0)
    /\ Rerender(frames')
    /\ JobsIdle
    /\ UNCHANGED <<sourceImage, onloadDividers, grid, dividers, dragTarget,
                   hoverTarget, selectionBox, isSelecting>>

----------------------------------------------------------------------------
(* Grid controls *)

handleGridCountChange(type, val) ==
    /\ Tick
    /\ LET newVal == ClampCount(val)
           newGrid == [grid EXCEPT ![type] = newVal]
           newDiv == resetDividers(newGrid.rows, newGrid.cols)
       IN /\ grid' = newGrid
          /\ dividers' = newDiv
          /\ Derive(newDiv, img)
    /\ ev' = Event("grid", type, val, 0)
    /\ Rerender(frames')
    /\ JobsIdle
    /\ UNCHANGED <<sourceImage, img, onloadDividers, dragTarget, hoverTarget,
                   selectionBox, isSelecting>>

\* the Reset button (line 711): resetDividers(grid.rows, grid.cols)
ResetClick ==
    /\ Tick
    /\ LET newDiv == resetDividers(grid.rows, grid.cols)
       IN /\ dividers' = newDiv
          /\ Derive(newDiv, img)
    /\ ev' = Event("reset", "", 0, 0)
    /\ Rerender(frames')
    /\ JobsIdle
    /\ UNCHANGED <<sourceImage, img, onloadDividers, grid, dragTarget,
                   hoverTarget, selectionBox, isSelecting>>

----------------------------------------------------------------------------
(* Canvas interaction *)

\* handleMouseDown without the return of line 512
handleMouseDownNoReturn(x, y) ==
    /\ Tick
    /\ CanvasDrawn
    /\ dragTarget' = IF hoverTarget # None THEN hoverTarget ELSE dragTarget
    /\ isSelecting' = TRUE
    /\ selectionBox' = [set |-> TRUE, startX |-> x, startY |-> y,
                        currentX |-> x, currentY |-> y]
    /\ ev' = IF hoverTarget # None THEN Event("down", "drag", 0, 0)
                                   ELSE Event("down", "marquee", x, y)
    /\ PreviewIdle
    /\ JobsIdle
    /\ UNCHANGED <<sourceImage, img, onloadDividers, grid, dividers, frames,
                   selectedFrameIds, hoverTarget>>

handleMouseDown(x, y) ==
    /\ Tick
    /\ CanvasDrawn
    /\ IF hoverTarget # None
       THEN /\ dragTarget' = hoverTarget
            /\ UNCHANGED <<isSelecting, selectionBox>>
       ELSE /\ isSelecting' = TRUE
            /\ selectionBox' = [set |-> TRUE, startX |-> x, startY |-> y,
                                currentX |-> x, currentY |-> y]
            /\ UNCHANGED dragTarget
    /\ ev' = IF hoverTarget # None THEN Event("down", "drag", 0, 0)
                                   ELSE Event("down", "marquee", x, y)
    /\ PreviewIdle
    /\ JobsIdle
    /\ UNCHANGED <<sourceImage, img, onloadDividers, grid, dividers, frames,
                   selectedFrameIds, hoverTarget>>

\* handleMouseMove while a divider is dragged (lines 529-548), with the
\* recalculation the new dividers object triggers
MouseMoveDrag(x, y) ==
    /\ Tick
    /\ CanvasDrawn
    /\ dragTarget # None
    /\ LET newDiv == DragDividers(dividers, dragTarget, x, y)
       IN /\ dividers' = newDiv
          /\ Derive(newDiv, img)
    /\ ev' = Event("move", "drag", 0, 0)
    /\ Rerender(frames')
    /\ JobsIdle
    /\ UNCHANGED <<sourceImage, img, onloadDividers, grid, dragTarget,
                   hoverTarget, selectionBox, isSelecting>>

\* handleMouseMove while selecting (lines 550-553)
MouseMoveSelect(x, y) ==
    /\ Tick
    /\ CanvasDrawn
    /\ dragTarget = None
    /\ isSelecting /\ selectionBox.set
    /\ selectionBox' = [selectionBox EXCEPT !.currentX = x, !.currentY = y]
    /\ ev' = Event("move", "select", 0, 0)
    /\ PreviewIdle
    /\ JobsIdle
    /\ UNCHANGED <<sourceImage, img, onloadDividers, grid, dividers, frames,
                   selectedFrameIds, dragTarget, hoverTarget, isSelecting>>

\* handleMouseMove otherwise: the hit test (lines 555-572)
MouseMoveHover(x, y) ==
    /\ Tick
    /\ CanvasDrawn
    /\ dragTarget = None
    /\ ~(isSelecting /\ selectionBox.set)
    /\ hoverTarget' = HitTest(dividers, x, y)
    /\ ev' = Event("move", "hover", x, y)
    /\ PreviewIdle
    /\ JobsIdle
    /\ UNCHANGED <<sourceImage, img, onloadDividers, grid, dividers, frames,
                   selectedFrameIds, dragTarget, selectionBox, isSelecting>>

\* handleMouseUp without lines 601-602
handleMouseUpKeepsMarquee(x, y) ==
    /\ Tick
    /\ CanvasDrawn
    /\ IF dragTarget # None
       THEN /\ dragTarget' = None
            /\ ev' = Event("up", "drag", 0, 0)
            /\ UNCHANGED selectedFrameIds
       ELSE IF isSelecting /\ selectionBox.set
       THEN /\ selectedFrameIds' = UpSelection(frames, selectionBox, x, y)
            /\ ev' = Event("up", IF IsClick(selectionBox, x, y) THEN "click"
                                                               ELSE "marquee", x, y)
            /\ UNCHANGED dragTarget
       ELSE /\ ev' = Event("up", "idle", 0, 0)
            /\ UNCHANGED <<dragTarget, selectedFrameIds>>
    /\ PreviewIdle
    /\ JobsIdle
    /\ UNCHANGED <<sourceImage, img, onloadDividers, grid, dividers, frames,
                   hoverTarget, selectionBox, isSelecting>>

handleMouseUp(x, y) ==
    /\ Tick
    /\ CanvasDrawn
    /\ IF dragTarget # None
       THEN /\ dragTarget' = None
            /\ ev' = Event("up", "drag", 0, 0)
            /\ UNCHANGED <<selectedFrameIds, selectionBox, isSelecting>>
       ELSE IF isSelecting /\ selectionBox.set
       THEN /\ selectedFrameIds' = UpSelection(frames, selectionBox, x, y)
            /\ selectionBox' = NoBox
            /\ isSelecting' = FALSE
            /\ ev' = Event("up", IF IsClick(selectionBox, x, y) THEN "click"
                                                               ELSE "marquee", x, y)
            /\ UNCHANGED dragTarget
       ELSE /\ ev' = Event("up", "idle", 0, 0)
            /\ UNCHANGED <<dragTarget, selectedFrameIds, selectionBox, isSelecting>>
    /\ PreviewIdle
    /\ JobsIdle
    /\ UNCHANGED <<sourceImage, img, onloadDividers, grid, dividers, frames,
                   hoverTarget>>

\* handleMouseLeave without line 609
handleMouseLeaveKeepsBox ==
    /\ Tick
    /\ CanvasDrawn
    /\ dragTarget' = None
    /\ hoverTarget' = None
    /\ selectionBox' = selectionBox
    /\ isSelecting' = FALSE
    /\ ev' = Event("leave",
                   IF dragTarget # None THEN "drag"
                   ELSE IF isSelecting THEN "marquee" ELSE "idle",
                   0, 0)
    /\ PreviewIdle
    /\ JobsIdle
    /\ UNCHANGED <<sourceImage, img, onloadDividers, grid, dividers, frames,
                   selectedFrameIds>>

\* handleMouseLeave without line 608
handleMouseLeaveKeepsHover ==
    /\ Tick
    /\ CanvasDrawn
    /\ dragTarget' = None
    /\ hoverTarget' = hoverTarget
    /\ selectionBox' = NoBox
    /\ isSelecting' = FALSE
    /\ ev' = Event("leave",
                   IF dragTarget # None THEN "drag"
                   ELSE IF isSelecting THEN "marquee" ELSE "idle",
                   0, 0)
    /\ PreviewIdle
    /\ JobsIdle
    /\ UNCHANGED <<sourceImage, img, onloadDividers, grid, dividers, frames,
                   selectedFrameIds>>

handleMouseLeave ==
    /\ Tick
    /\ CanvasDrawn
    /\ dragTarget' = None
    /\ hoverTarget' = None
    /\ selectionBox' = NoBox
    /\ isSelecting' = FALSE
    /\ ev' = Event("leave",
                   IF dragTarget # None THEN "drag"
                   ELSE IF isSelecting THEN "marquee" ELSE "idle",
                   0, 0)
    /\ PreviewIdle
    /\ JobsIdle
    /\ UNCHANGED <<sourceImage, img, onloadDividers, grid, dividers, frames,
                   selectedFrameIds>>

----------------------------------------------------------------------------
(* Batch operations and sequence reordering *)

\* the offset applied to every frame, selected or not
OffsetAllFrames(fs, sel, axis, delta) ==
    [k \in 1..Len(fs) |->
        IF axis = "x" THEN [fs[k] EXCEPT !.offsetX = @ + delta]
                      ELSE [fs[k] EXCEPT !.offsetY = @ + delta]]

OffsetFrames(fs, sel, axis, delta) ==
    [k \in 1..Len(fs) |->
        IF Includes(sel, fs[k].id)
        THEN IF axis = "x" THEN [fs[k] EXCEPT !.offsetX = @ + delta]
                           ELSE [fs[k] EXCEPT !.offsetY = @ + delta]
        ELSE fs[k]]

\* setBatchActive reaching the first selected frame only
ActiveFirstSelected(fs, sel, active) ==
    [k \in 1..Len(fs) |->
        IF Len(sel) > 0 /\ fs[k].id = sel[1]
        THEN [fs[k] EXCEPT !.active = active] ELSE fs[k]]

ActiveFrames(fs, sel, active) ==
    [k \in 1..Len(fs) |->
        IF Includes(sel, fs[k].id) THEN [fs[k] EXCEPT !.active = active] ELSE fs[k]]

\* moveFrameInSequence wrapping around the ends instead of the check of line 183
MovedFramesWrapping(fs, sel, direction) ==
    IF Len(sel) # 1 THEN fs
    ELSE LET selectedId == sel[1]
             fi == FirstIn({k \in 1..Len(fs) : fs[k].id = selectedId})
         IN IF fi = 0 THEN fs
            ELSE IF ~fs[fi].active THEN fs
            ELSE LET sortedActive == SortedActive(fs)
                     currentIndex ==
                         FirstIn({n \in 1..Len(sortedActive) :
                                     sortedActive[n].id = selectedId}) - 1
                     swapIndex == (currentIndex + direction) % Len(sortedActive)
                     frame == fs[fi]
                     targetFrame == sortedActive[swapIndex + 1]
                 IN [k \in 1..Len(fs) |->
                       IF fs[k].id = frame.id
                       THEN [fs[k] EXCEPT !.sequenceOrder = targetFrame.sequenceOrder]
                       ELSE IF fs[k].id = targetFrame.id
                       THEN [fs[k] EXCEPT !.sequenceOrder = frame.sequenceOrder]
                       ELSE fs[k]]

\* moveFrameInSequence without line 193: the neighbour keeps its sequenceOrder
MovedFramesOneSided(fs, sel, direction) ==
    IF Len(sel) # 1 THEN fs
    ELSE LET selectedId == sel[1]
             fi == FirstIn({k \in 1..Len(fs) : fs[k].id = selectedId})
         IN IF fi = 0 THEN fs
            ELSE IF ~fs[fi].active THEN fs
            ELSE LET sortedActive == SortedActive(fs)
                     currentIndex ==
                         FirstIn({n \in 1..Len(sortedActive) :
                                     sortedActive[n].id = selectedId}) - 1
                     swapIndex == currentIndex + direction
                 IN IF swapIndex < 0 \/ swapIndex >= Len(sortedActive) THEN fs
                    ELSE [k \in 1..Len(fs) |->
                            IF fs[k].id = selectedId
                            THEN [fs[k] EXCEPT !.sequenceOrder =
                                                  sortedActive[swapIndex + 1].sequenceOrder]
                            ELSE fs[k]]

\* moveFrameInSequence as a function of frames and the selection (lines 170-196)
MovedFrames(fs, sel, direction) ==
    IF Len(sel) # 1 THEN fs
    ELSE LET selectedId == sel[1]
             fi == FirstIn({k \in 1..Len(fs) : fs[k].id = selectedId})
         IN IF fi = 0 THEN fs
            ELSE IF ~fs[fi].active THEN fs
            ELSE LET sortedActive == SortedActive(fs)
                     currentIndex ==
                         FirstIn({n \in 1..Len(sortedActive) :
                                     sortedActive[n].id = selectedId}) - 1
                     swapIndex == currentIndex + direction
                 IN IF currentIndex = -1 THEN fs
                    ELSE IF swapIndex < 0 \/ swapIndex >= Len(sortedActive) THEN fs
                    ELSE LET frame == fs[fi]
                             targetFrame == sortedActive[swapIndex + 1]
                             newOrderA == targetFrame.sequenceOrder
                             newOrderB == frame.sequenceOrder
                         IN [k \in 1..Len(fs) |->
                               IF fs[k].id = frame.id
                               THEN [fs[k] EXCEPT !.sequenceOrder = newOrderA]
                               ELSE IF fs[k].id = targetFrame.id
                               THEN [fs[k] EXCEPT !.sequenceOrder = newOrderB]
                               ELSE fs[k]]

updateFrameOffset(axis, delta) ==
    /\ Tick
    /\ frames' = IF Len(selectedFrameIds) = 0 THEN frames
                 ELSE OffsetFrames(frames, selectedFrameIds, axis, delta)
    /\ ev' = Event("offset", axis, delta, 0)
    /\ Rerender(frames')
    /\ JobsIdle
    /\ UNCHANGED <<sourceImage, img, onloadDividers, grid, dividers,
                   selectedFrameIds, dragTarget, hoverTarget, selectionBox,
                   isSelecting>>

setBatchActive(active) ==
    /\ Tick
    /\ frames' = IF Len(selectedFrameIds) = 0 THEN frames
                 ELSE ActiveFrames(frames, selectedFrameIds, active)
    /\ ev' = Event("active", "", IF active THEN 1 ELSE 0, 0)
    /\ Rerender(frames')
    /\ JobsIdle
    /\ UNCHANGED <<sourceImage, img, onloadDividers, grid, dividers,
                   selectedFrameIds, dragTarget, hoverTarget, selectionBox,
                   isSelecting>>

moveFrameInSequence(direction) ==
    /\ Tick
    /\ frames' = MovedFrames(frames, selectedFrameIds, direction)
    /\ ev' = Event("seq", "", direction, 0)
    /\ Rerender(frames')
    /\ JobsIdle
    /\ UNCHANGED <<sourceImage, img, onloadDividers, grid, dividers,
                   selectedFrameIds, dragTarget, hoverTarget, selectionBox,
                   isSelecting>>

----------------------------------------------------------------------------
(* Preview controls and timer *)

\* parseInt(e.target.value) || 8 (line 830): 0 is passed on as 8
ParseFps(t) == IF t = 0 THEN DEFAULT_FPS ELSE t

\* onChange of the FPS input (line 830)
SetFps(t) ==
    /\ Tick
    /\ fps' = ParseFps(t)
    /\ isPlaying' = isPlaying
    /\ PreviewLoop(isPlaying, ParseFps(t), frames)
    /\ ev' = Event("fps", "", t, 0)
    /\ JobsIdle
    /\ UNCHANGED <<sourceImage, img, onloadDividers, grid, dividers, frames,
                   selectedFrameIds, dragTarget, hoverTarget, selectionBox,
                   isSelecting>>

\* onClick of the play/pause button (line 820)
TogglePlay ==
    /\ Tick
    /\ isPlaying' = ~isPlaying
    /\ fps' = fps
    /\ PreviewLoop(~isPlaying, fps, frames)
    /\ ev' = Event("play", "", 0, 0)
    /\ JobsIdle
    /\ UNCHANGED <<sourceImage, img, onloadDividers, grid, dividers, frames,
                   selectedFrameIds, dragTarget, hoverTarget, selectionBox,
                   isSelecting>>

\* The callback of the interval (lines 358-360).  The event records how many
\* callbacks have run in a row (x) and the index before the first of them (y).
IntervalTick ==
    /\ Tick
    /\ interval.on
    /\ previewFrameIndex' = NextIndex(previewFrameIndex, interval.length)
    /\ ev' = IF ev.kind = "tick"
             THEN Event("tick", "", ev.x + 1, ev.y)
             ELSE Event("tick", "", 1, previewFrameIndex)
    /\ JobsIdle
    /\ UNCHANGED <<sourceImage, img, onloadDividers, grid, dividers, frames,
                   selectedFrameIds, dragTarget, hoverTarget, selectionBox,
                   isSelecting, fps, isPlaying, interval>>

----------------------------------------------------------------------------
(* Redraw *)

\* drawEditor with a state update in it: the hover target is dropped
drawEditorClearsHover ==
    /\ Tick
    /\ CanvasDrawn
    /\ hoverTarget' = None
    /\ ev' = Event("draw", "", 0, 0)
    /\ PreviewIdle
    /\ JobsIdle
    /\ UNCHANGED <<sourceImage, img, onloadDividers, grid, dividers, frames,
                   selectedFrameIds, dragTarget, selectionBox, isSelecting>>

\* The animation-frame callback of lines 500-502: drawEditor (lines 395-498)
\* past its guard of line 397.  It sizes the canvas to the image and paints;
\* it calls no state setter.
drawEditor ==
    /\ Tick
    /\ CanvasDrawn
    /\ ev' = Event("draw", "", 0, 0)
    /\ PreviewIdle
    /\ JobsIdle
    /\ UNCHANGED <<sourceImage, img, onloadDividers, grid, dividers, frames,
                   selectedFrameIds, dragTarget, hoverTarget, selectionBox,
                   isSelecting>>

----------------------------------------------------------------------------
(* Generation *)

\* onClick of the Generate button (lines 674-675, enabled while not
\* generating) up to the await of line 221; p is the prompt at that time
handleGenerate(p) ==
    /\ Tick
    /\ ~isGenerating
    /\ IF p = ""
       THEN /\ UNCHANGED <<isGenerating, generation, errorMsg>>
            /\ ev' = Event("generate", "empty", 0, 0)
       ELSE /\ isGenerating' = TRUE
            /\ generation' = "pending"
            /\ errorMsg' = ""
            /\ ev' = Event("generate", "start", 0, 0)
    /\ PreviewIdle
    /\ UNCHANGED <<isExporting, gifExport>>
    /\ UNCHANGED <<sourceImage, img, onloadDividers, grid, dividers, frames,
                   selectedFrameIds, dragTarget, hoverTarget, selectionBox,
                   isSelecting>>

\* generateSpriteSheet resolves with image i: lines 222-226 and 230, and the
\* effects of lines 75-87 of the render they cause
GenerateResolve(i) ==
    /\ generation = "pending"
    /\ generation' = "idle"
    /\ isGenerating' = FALSE
    /\ LET newImg == IF i # sourceImage THEN SetSrc(img, i) ELSE img
           newDiv == resetDividers(3, 3)
       IN /\ sourceImage' = i
          /\ img' = newImg
          /\ onloadDividers' = IF i # sourceImage THEN newDiv ELSE onloadDividers
          /\ grid' = [rows |-> 3, cols |-> 3]
          /\ dividers' = newDiv
          /\ Derive(newDiv, newImg)
    /\ ev' = Event("generated", "", i, 0)
    /\ Rerender(frames')
    /\ UNCHANGED <<errorMsg, isExporting, gifExport, steps>>
    /\ UNCHANGED <<dragTarget, hoverTarget, selectionBox, isSelecting>>

\* the rejection handled without the finally block of lines 229-231
GenerateRejectNoFinally ==
    /\ generation = "pending"
    /\ generation' = "idle"
    /\ errorMsg' = "Failed to generate"
    /\ isGenerating' = isGenerating
    /\ ev' = Event("generateFailed", "", 0, 0)
    /\ PreviewIdle
    /\ UNCHANGED <<isExporting, gifExport, steps>>
    /\ UNCHANGED <<sourceImage, img, onloadDividers, grid, dividers, frames,
                   selectedFrameIds, dragTarget, hoverTarget, selectionBox,
                   isSelecting>>

\* generateSpriteSheet rejects: lines 227-228 and 230
GenerateReject ==
    /\ generation = "pending"
    /\ generation' = "idle"
    /\ errorMsg' = "Failed to generate"
    /\ isGenerating' = FALSE
    /\ ev' = Event("generateFailed", "", 0, 0)
    /\ PreviewIdle
    /\ UNCHANGED <<isExporting, gifExport, steps>>
    /\ UNCHANGED <<sourceImage, img, onloadDividers, grid, dividers, frames,
                   selectedFrameIds, dragTarget, hoverTarget, selectionBox,
                   isSelecting>>

----------------------------------------------------------------------------
(* GIF export *)

\* handleExportGif without the guard of lines 236-239
handleExportGifUnguarded ==
    /\ Tick
    /\ ~isExporting /\ sourceImage # 0 /\ ActiveCount(frames) > 0
    /\ IF FALSE
       THEN /\ UNCHANGED <<isExporting, gifExport>>
            /\ ev' = Event("exportGif", "refused", 0, 0)
       ELSE /\ isExporting' = TRUE
            /\ gifExport' = "fetching"
            /\ ev' = Event("exportGif", "start", 0, 0)
    /\ PreviewIdle
    /\ UNCHANGED <<isGenerating, generation, errorMsg>>
    /\ UNCHANGED <<sourceImage, img, onloadDividers, grid, dividers, frames,
                   selectedFrameIds, dragTarget, hoverTarget, selectionBox,
                   isSelecting>>

\* onClick of the Export GIF button (lines 837-838, enabled while not
\* exporting, with a source image and active frames) up to the await of
\* line 244
handleExportGif ==
    /\ Tick
    /\ ~isExporting /\ sourceImage # 0 /\ ActiveCount(frames) > 0
    /\ IF ActiveCount(frames) = 0 \/ img.loading
       THEN /\ UNCHANGED <<isExporting, gifExport>>
            /\ ev' = Event("exportGif", "refused", 0, 0)
       ELSE /\ isExporting' = TRUE
            /\ gifExport' = "fetching"
            /\ ev' = Event("exportGif", "start", 0, 0)
    /\ PreviewIdle
    /\ UNCHANGED <<isGenerating, generation, errorMsg>>
    /\ UNCHANGED <<sourceImage, img, onloadDividers, grid, dividers, frames,
                   selectedFrameIds, dragTarget, hoverTarget, selectionBox,
                   isSelecting>>

\* getGifWorkerUrl resolved: the encoder is fed the active frames and started
\* (lines 246-286)
ExportWorkerFetched ==
    /\ gifExport = "fetching"
    /\ gifExport' = "rendering"
    /\ ev' = Event("exportFetched", "", 0, 0)
    /\ PreviewIdle
    /\ UNCHANGED <<isGenerating, generation, errorMsg, isExporting, steps>>
    /\ UNCHANGED <<sourceImage, img, onloadDividers, grid, dividers, frames,
                   selectedFrameIds, dragTarget, hoverTarget, selectionBox,
                   isSelecting>>

\* getGifWorkerUrl (or building the encoder) threw: lines 288-292
ExportFails ==
    /\ gifExport = "fetching"
    /\ gifExport' = "none"
    /\ isExporting' = FALSE
    /\ ev' = Event("exportFailed", "", 0, 0)
    /\ PreviewIdle
    /\ UNCHANGED <<isGenerating, generation, errorMsg, steps>>
    /\ UNCHANGED <<sourceImage, img, onloadDividers, grid, dividers, frames,
                   selectedFrameIds, dragTarget, hoverTarget, selectionBox,
                   isSelecting>>

\* the encoder's 'finished' event: lines 275-284
ExportFinished ==
    /\ gifExport = "rendering"
    /\ gifExport' = "none"
    /\ isExporting' = FALSE
    /\ ev' = Event("exportFinished", "", 0, 0)
    /\ PreviewIdle
    /\ UNCHANGED <<isGenerating, generation, errorMsg, steps>>
    /\ UNCHANGED <<sourceImage, img, onloadDividers, grid, dividers, frames,
                   selectedFrameIds, dragTarget, hoverTarget, selectionBox,
                   isSelecting>>

----------------------------------------------------------------------------
(* The program *)

\* the numbers typed into the Rows and Cols inputs
GridInputs == (0 - 1)..MaxGridInput

\* parseInt(e.target.value) || 1 (lines 723, 733): 0 is passed on as 1
ParseCount(t) == IF t = 0 THEN 1 ELSE t

UploadStep(I) == \E i \in I : Upload(i)

GridStep ==
    \/ \E t \in GridInputs : handleGridCountChange("rows", ParseCount(t))
    \/ \E t \in GridInputs : handleGridCountChange("cols", ParseCount(t))
    \/ ResetClick

PointerStep ==
    \/ \E p \in Points : handleMouseDown(p[1], p[2])
    \/ \E p \in Points : MouseMoveDrag(p[1], p[2])
    \/ \E p \in Points : MouseMoveSelect(p[1], p[2])
    \/ \E p \in Points : MouseMoveHover(p[1], p[2])
    \/ \E p \in Points : handleMouseUp(p[1], p[2])
    \/ handleMouseLeave

EditStep ==
    \/ \E axis \in {"x", "y"}, delta \in {0 - 1, 1} : updateFrameOffset(axis, delta)
    \/ \E active \in BOOLEAN : setBatchActive(active)
    \/ \E direction \in {0 - 1, 1} : moveFrameInSequence(direction)

\* One source image, every control: the editing session on a loaded sheet.
Next == UploadStep({1}) \/ ImgLoaded \/ GridStep \/ PointerStep \/ EditStep

Spec == Init /\ [][Next]_vars

\* Any of the images may replace the current one while the grid and the
\* pointer are used; the frame attributes stay at their defaults.
NextLoad == UploadStep(Images) \/ ImgLoaded \/ GridStep \/ PointerStep

SpecLoad == Init /\ [][NextLoad]_vars

\* A column count beyond the upper limit of the grid inputs, with the grid
\* and the pointer in use (a 20-column grid on every row count).
WideInputs == {MAX_COUNT + 1}

WideGridStep == \E t \in WideInputs : handleGridCountChange("cols", ParseCount(t))

NextGrid == UploadStep({1}) \/ ImgLoaded \/ GridStep \/ WideGridStep \/ PointerStep

SpecGrid == Init /\ [][NextGrid]_vars

\* Two pointer positions 3 px apart on either side of the first vertical
\* divider of a 3-column grid, for marquee gestures between close points.
NearPoints == {<<CanvasW \div 3 - 2, 0>>, <<CanvasW \div 3 + 1, 0>>}

NearStep ==
    \/ \E p \in NearPoints : handleMouseDown(p[1], p[2])
    \/ \E p \in NearPoints : MouseMoveSelect(p[1], p[2])
    \/ \E p \in NearPoints : handleMouseUp(p[1], p[2])

NextMarquee == UploadStep({1}) \/ ImgLoaded \/ GridStep \/ PointerStep \/ NearStep

SpecMarquee == Init /\ [][NextMarquee]_vars

\* Pointer positions at the edge of the hit tolerance of a 3x3 grid: one
\* exactly 12 px from the first vertical and the first horizontal divider,
\* one 11 px from the first vertical divider and on the first horizontal one.
EdgePoints ==
    {<<CanvasW \div 3 - HIT_TOLERANCE, CanvasH \div 3 + HIT_TOLERANCE>>,
     <<CanvasW \div 3 + HIT_TOLERANCE - 1, CanvasH \div 3>>}

EdgeHoverStep == \E p \in EdgePoints : MouseMoveHover(p[1], p[2])

NextHover == UploadStep({1}) \/ ImgLoaded \/ GridStep \/ PointerStep \/ EdgeHoverStep

SpecHover == Init /\ [][NextHover]_vars

\* The editing session on a sheet that is already loaded: the state Spec
\* reaches by Upload(1) and ImgLoaded (SheetLoaded below), from where the
\* step bound leaves room for resizes, a click and two sequence moves.
InitLoaded ==
    /\ sourceImage = 1
    /\ img = [src |-> 1, shown |-> 1, loading |-> FALSE]
    /\ onloadDividers = resetDividers(3, 3)
    /\ grid = [rows |-> 3, cols |-> 3]
    /\ dividers = resetDividers(3, 3)
    /\ frames = NewFrames(<<>>, resetDividers(3, 3), ImgWidth(1), ImgHeight(1))
    /\ selectedFrameIds = <<>>
    /\ dragTarget = None
    /\ hoverTarget = None
    /\ selectionBox = NoBox
    /\ isSelecting = FALSE
    /\ fps = DEFAULT_FPS
    /\ isPlaying = TRUE
    /\ previewFrameIndex = 0
    /\ interval = [on |-> TRUE, length |-> 9, fps |-> DEFAULT_FPS]
    /\ isGenerating = FALSE
    /\ generation = "idle"
    /\ errorMsg = ""
    /\ isExporting = FALSE
    /\ gifExport = "none"
    /\ ev = [kind |-> "load", type |-> "", x |-> 0, y |-> 0, n |-> 0, i |-> 0]
    /\ steps = 0

\* the pointer positions of the selection gestures: Points and a point
\* inside the first cell of the middle row of a 3-row grid
SelectPoints == Points \cup {<<3, CanvasH \div 2>>}

\* the pointer-down and pointer-up of clicks and marquees
SelectStep ==
    \/ \E p \in SelectPoints : handleMouseDown(p[1], p[2])
    \/ \E p \in SelectPoints : handleMouseUp(p[1], p[2])

\* the Cols input alone
ColsStep == \E t \in GridInputs : handleGridCountChange("cols", ParseCount(t))

\* the controls that change the playback sequence
SeqStep ==
    \/ \E active \in BOOLEAN : setBatchActive(active)
    \/ \E direction \in {0 - 1, 1} : moveFrameInSequence(direction)

NextSeq == ColsStep \/ SelectStep \/ SeqStep

SpecSeq == InitLoaded /\ [][NextSeq]_vars

\* The preview of a loaded sheet: the timer, the play/pause button and the
\* FPS input, while the Rows and Cols inputs and the activation of clicked
\* frames change the length of the playback sequence.
FpsInputs == {0 - 1, 0, 12}

PreviewStep ==
    \/ \E t \in FpsInputs : SetFps(t)
    \/ TogglePlay

\* the counts typed into the Rows and Cols inputs
CountInputs == {1, 2}

CountStep ==
    \/ \E t \in CountInputs : handleGridCountChange("rows", ParseCount(t))
    \/ \E t \in CountInputs : handleGridCountChange("cols", ParseCount(t))

\* clicks on the first and on the last frame, and their (de)activation
ClickPoints == {<<0, 0>>, <<CanvasW - 1, CanvasH - 1>>}

ActiveStep ==
    \/ \E p \in ClickPoints : handleMouseDown(p[1], p[2])
    \/ \E p \in ClickPoints : handleMouseUp(p[1], p[2])
    \/ \E active \in BOOLEAN : setBatchActive(active)

NextPreview == IntervalTick \/ PreviewStep \/ CountStep \/ ActiveStep

SpecPreview == InitLoaded /\ [][NextPreview]_vars

\* Redraws and timer ticks while the pointer hovers over dividers, starts
\* drags and selects frames on a loaded sheet.
NextRedraw == drawEditor \/ IntervalTick \/ EdgeHoverStep \/ SelectStep

SpecRedraw == InitLoaded /\ [][NextRedraw]_vars

\* Generation and GIF export on a loaded sheet, while a generated or
\* uploaded image loads, the grid is resized and frames are clicked.
Prompts == {"", "robot"}

GenerateStep == \E p \in Prompts : handleGenerate(p)

GenerateSettles == GenerateResolve(2) \/ GenerateReject

ExportStep ==
    \/ handleExportGif
    \/ ExportWorkerFetched
    \/ ExportFails
    \/ ExportFinished

ClickStep ==
    \/ \E p \in ClickPoints : handleMouseDown(p[1], p[2])
    \/ \E p \in ClickPoints : handleMouseUp(p[1], p[2])

NextJobs ==
    GenerateStep \/ GenerateSettles \/ ExportStep \/ UploadStep({2}) \/ ImgLoaded
        \/ CountStep \/ ClickStep

SpecJobs == InitLoaded /\ [][NextJobs]_vars

\* Generation alone on a loaded sheet with clicks on frames.  A pending
\* request settles: the promise of generateSpriteSheet is resolved or
\* rejected by the client library.
NextGenerate == GenerateStep \/ GenerateSettles \/ ImgLoaded \/ ClickStep

SpecGenerate == InitLoaded /\ [][NextGenerate]_vars /\ WF_vars(GenerateSettles)

----------------------------------------------------------------------------
(* Properties: dividers and grid *)

\* A divider sequence is separated when every entry is a number strictly
\* inside (0,1), the entries increase strictly, and neighbours, the first
\* entry and 0, and the last entry and 1 are at least 0.01 apart.
Separated(a) ==
    /\ \A i \in 1..Len(a) : ~IsNaN(a[i]) /\ a[i] > 0 /\ a[i] < Scale
    /\ \A i \in 1..(Len(a) - 1) : a[i] < a[i + 1] /\ a[i + 1] - a[i] >= Eps
    /\ Len(a) > 0 => a[1] >= Eps /\ Scale - a[Len(a)] >= Eps

\* a is the evenly spaced default of n cells: entries i/n for i = 1..n-1
EvenlySpaced(a, n) ==
    /\ Len(a) = n - 1
    /\ \A i \in 1..Len(a) : a[i] * n = i * Scale

\* C1: in every reachable state both divider sequences are strictly
\* increasing, inside (0,1), and 0.01-separated from each other and from the
\* boundaries 0 and 1.
C1_DividersSeparated == Separated(dividers.v) /\ Separated(dividers.h)

\* C2: every pointer-move processed while a divider drag is in progress
\* writes, for the dragged index, a position pos with
\* prevBound + 0.01 <= pos <= nextBound - 0.01, the bounds being the
\* neighbouring dividers of the axis or the boundaries 0 and 1.
C2_DragWithinBounds ==
    [][(dragTarget # None /\ ev'.kind = "move") =>
          LET arr == IF dragTarget.type = "v" THEN dividers'.v ELSE dividers'.h
              i == dragTarget.index + 1
              prevBound == IF i = 1 THEN 0 ELSE arr[i - 1]
              nextBound == IF i >= Len(arr) THEN Scale ELSE arr[i + 1]
          IN /\ i <= Len(arr)
             /\ ~IsNaN(arr[i])
             /\ prevBound + Eps <= arr[i]
             /\ arr[i] <= nextBound - Eps]_vars

\* C3: handleGridCountChange with any integer input sets the changed count to
\* the input clamped into [1,20], keeps the other count, and rebuilds both
\* divider sequences to the even defaults i/cols and i/rows, the axis whose
\* count did not change included.
C3_ResizeRebuildsBothAxes ==
    [][ev'.kind = "grid" =>
          LET val == ev'.x
              clamped == IF val < 1 THEN 1 ELSE IF val > 20 THEN 20 ELSE val
          IN /\ ev'.type = "rows" => grid'.rows = clamped /\ grid'.cols = grid.cols
             /\ ev'.type = "cols" => grid'.cols = clamped /\ grid'.rows = grid.rows
             /\ EvenlySpaced(dividers'.v, grid'.cols)
             /\ EvenlySpaced(dividers'.h, grid'.rows)]_vars

\* a resize beyond the limit, clamped to 20 columns on a loaded sheet
C3_Witness ==
    /\ ev.kind = "grid" /\ ev.type = "cols" /\ ev.x > 20
    /\ grid.cols = 20 /\ Len(dividers.v) = 19
    /\ ImgReady(img) /\ Len(frames) = 20 * grid.rows

\* C4: once the image is ready, with R rows and C columns (1 <= R, C <= 20)
\* there are exactly R*C frames, C-1 vertical and R-1 horizontal dividers,
\* each divider strictly within (0,1) and the dividers 0.01-separated.
C4_GridShape ==
    ImgReady(img) =>
        /\ grid.rows \in 1..20 /\ grid.cols \in 1..20
        /\ Len(frames) = grid.rows * grid.cols
        /\ Len(dividers.v) = grid.cols - 1
        /\ Len(dividers.h) = grid.rows - 1
        /\ Separated(dividers.v) /\ Separated(dividers.h)

----------------------------------------------------------------------------
(* Properties: frame derivation *)

\* the steps that run calculateFrames
Recalculates ==
    \/ ev'.kind \in {"upload", "load", "grid", "reset"}
    \/ ev'.kind = "move" /\ dragTarget # None

\* C5: every recomputation of the frame list gives each new cell whose
\* (row,col) existed in the previous list that cell's offsetX, offsetY,
\* active and sequenceOrder, and every other cell offsetX = 0, offsetY = 0,
\* active = true and sequenceOrder = its new id.
C5_CarryForward ==
    [][Recalculates =>
          \A k \in 1..Len(frames') :
              LET f == frames'[k]
                  old == {j \in 1..Len(frames) :
                             frames[j].row = f.row /\ frames[j].col = f.col}
              IN IF old = {}
                 THEN /\ f.offsetX = 0 /\ f.offsetY = 0
                      /\ f.active = TRUE /\ f.sequenceOrder = f.id
                 ELSE \A j \in old :
                         /\ f.offsetX = frames[j].offsetX
                         /\ f.offsetY = frames[j].offsetY
                         /\ f.active = frames[j].active
                         /\ f.sequenceOrder = frames[j].sequenceOrder]_vars

\* a resize has rebuilt the frames of a ready image and a frame is still
\* inactive or offset: the attribute was carried through the rebuild
C5_Witness ==
    /\ ev.kind = "grid" /\ ImgReady(img)
    /\ \E k \in 1..Len(frames) :
          ~frames[k].active \/ frames[k].offsetX # 0 \/ frames[k].offsetY # 0

\* C6: every frame-list rebuild (divider drag step, resize, reset, image
\* load) leaves the selection empty.
C6_RebuildClearsSelection ==
    [][(Recalculates /\ ImgReady(img')) => selectedFrameIds' = <<>>]_vars

\* a rebuild arrived at a non-empty selection and emptied it
C6_Witness ==
    /\ ev.kind \in {"grid", "reset"} /\ ImgReady(img)
    /\ ev.n > 0 /\ selectedFrameIds = <<>>

\* C7: calculateFrames run while the image is not complete, or has no
\* source, leaves the frames and the selection as they were (the dividers
\* are written by the handler alone, never by calculateFrames).
C7_NotReadyNoOp ==
    [][(Recalculates /\ (img'.loading \/ img'.src = 0)) =>
          /\ frames' = frames
          /\ selectedFrameIds' = selectedFrameIds]_vars

\* a second image is loading and the frames and selection of the first are kept
C7_Witness ==
    /\ ev.kind \in {"upload", "grid", "reset"} /\ img.loading
    /\ Len(frames) > 0 /\ Len(selectedFrameIds) > 0

----------------------------------------------------------------------------
(* Properties: click and marquee selection *)

\* the pointer-up that ends a marquee gesture (selecting mode)
SelectingUp == ev'.kind = "up" /\ dragTarget = None /\ isSelecting /\ selectionBox.set

\* squared distance between the pointer-down point and the pointer-up point
UpDist2 ==
    (ev'.x - selectionBox.startX) * (ev'.x - selectionBox.startX)
        + (ev'.y - selectionBox.startY) * (ev'.y - selectionBox.startY)

\* the rectangle of frame f contains the canvas point (px, py)
Inside(f, px, py) ==
    /\ ~IsNaN(f.x) /\ ~IsNaN(f.y) /\ ~IsNaN(f.width) /\ ~IsNaN(f.height)
    /\ f.x <= px * Scale /\ px * Scale < f.x + f.width
    /\ f.y <= py * Scale /\ py * Scale < f.y + f.height

\* C8: a pointer-up in selecting mode less than 5 px from the pointer-down
\* point is a click: the selection becomes the id of the first frame in
\* raster order containing the pointer-up point, or empty when none does.
C8_ClickSelectsFirstContaining ==
    [][(SelectingUp /\ UpDist2 < 25) =>
          LET inside == {k \in 1..Len(frames) : Inside(frames[k], ev'.x, ev'.y)}
          IN IF inside = {}
             THEN selectedFrameIds' = <<>>
             ELSE /\ Len(selectedFrameIds') = 1
                  /\ \E k \in inside :
                        /\ \A j \in inside : k <= j
                        /\ selectedFrameIds'[1] = frames[k].id]_vars

\* a click has selected one frame
C8_Witness ==
    /\ ev.kind = "up" /\ ev.type = "click"
    /\ Len(selectedFrameIds) = 1 /\ selectedFrameIds[1] > 0

\* frame f is strictly left of, right of, above or below the rectangle with
\* corners (ax, ay) and (bx, by), given in canvas pixels
Apart(f, ax, ay, bx, by) ==
    LET left == (IF ax <= bx THEN ax ELSE bx) * Scale
        right == (IF ax <= bx THEN bx ELSE ax) * Scale
        top == (IF ay <= by THEN ay ELSE by) * Scale
        bottom == (IF ay <= by THEN by ELSE ay) * Scale
    IN \/ Lt(Add(f.x, f.width), left)
       \/ Gt(f.x, right)
       \/ Lt(Add(f.y, f.height), top)
       \/ Gt(f.y, bottom)

\* the new selection is the set of ids of the frames not apart from the
\* rectangle spanned by the pointer-down point and (cx, cy), each id once
SelectsMarquee(cx, cy) ==
    LET hit == {k \in 1..Len(frames) :
                   ~Apart(frames[k], selectionBox.startX, selectionBox.startY, cx, cy)}
    IN /\ {selectedFrameIds'[n] : n \in 1..Len(selectedFrameIds')}
              = {frames[k].id : k \in hit}
       /\ Len(selectedFrameIds') = Cardinality({frames[k].id : k \in hit})

\* C9 (as stated): a pointer-up in selecting mode 5 px or more from the
\* pointer-down point selects the frames intersecting the rectangle spanned
\* by the pointer-down point and the point where the pointer was released,
\* touching edges included, and clears the marquee.
C9_MarqueeToReleasePoint ==
    [][(SelectingUp /\ UpDist2 >= 25) =>
          /\ SelectsMarquee(ev'.x, ev'.y)
          /\ selectionBox' = NoBox /\ isSelecting' = FALSE]_vars

\* C9 (amended): a pointer-up in selecting mode 5 px or more from the
\* pointer-down point selects the frames intersecting the rectangle spanned
\* by the pointer-down point and the marquee's current corner (the point of
\* the last pointer-move processed while selecting, the pointer-down point
\* when there was none), touching edges included, and clears the marquee.
C9_MarqueeToCurrentCorner ==
    [][(SelectingUp /\ UpDist2 >= 25) =>
          /\ SelectsMarquee(selectionBox.currentX, selectionBox.currentY)
          /\ selectionBox' = NoBox /\ isSelecting' = FALSE]_vars

\* a marquee has selected several frames, not all of them
C9_Witness ==
    /\ ev.kind = "up" /\ ev.type = "marquee"
    /\ Len(selectedFrameIds) > 1 /\ Len(selectedFrameIds) < Len(frames)
    /\ selectionBox = NoBox

\* the frames are the nine cells of an evenly divided 3x3 grid
EvenGrid3x3 ==
    /\ ImgReady(img) /\ grid = [rows |-> 3, cols |-> 3]
    /\ Len(frames) = 9
    /\ \A k \in 1..Len(frames) :
          /\ frames[k].x * 3 = frames[k].col * CanvasW * Scale
          /\ frames[k].width * 3 = CanvasW * Scale
          /\ frames[k].y * 3 = frames[k].row * CanvasH * Scale
          /\ frames[k].height * 3 = CanvasH * Scale

\* the marquee, released at its current corner, spans the full height and
\* exactly the columns c0 and c0 + 1
SpansColumns(c0) ==
    LET box == selectionBox
        lo == IF box.startX <= box.currentX THEN box.startX ELSE box.currentX
        hi == IF box.startX <= box.currentX THEN box.currentX ELSE box.startX
    IN /\ ev'.x = box.currentX /\ ev'.y = box.currentY
       /\ lo * 3 = c0 * CanvasW /\ hi * 3 = (c0 + 2) * CanvasW
       /\ {box.startY, box.currentY} = {0, CanvasH}

\* C10: a marquee spanning two full columns of an evenly divided 3x3 grid
\* selects exactly the 6 frames of those two columns.
C10_TwoColumnsSelectSix ==
    [][\A c0 \in {0, 1} :
          (SelectingUp /\ UpDist2 >= 25 /\ EvenGrid3x3 /\ SpansColumns(c0)) =>
              /\ Len(selectedFrameIds') = 6
              /\ {selectedFrameIds'[n] : n \in 1..Len(selectedFrameIds')}
                    = {frames[k].id : k \in {j \in 1..Len(frames) :
                                                 frames[j].col \in {c0, c0 + 1}}}]_vars

----------------------------------------------------------------------------
(* Properties: pointer gestures *)

\* the set of the ids listed in seq
IdSet(seq) == {seq[n] : n \in 1..Len(seq)}

\* the marquee drawn the other way round: from its current corner to its start
Reversed(box) ==
    [set |-> TRUE, startX |-> box.currentX, startY |-> box.currentY,
     currentX |-> box.startX, currentY |-> box.startY]

\* the pointer-up that ends a gesture down at P / move to Q / up at Q
GestureUp ==
    /\ SelectingUp
    /\ ev'.x = selectionBox.currentX /\ ev'.y = selectionBox.currentY

\* the gesture selects what the gesture down at Q / move to P / up at P
\* selects on the same frames
SameAsReversed ==
    IdSet(selectedFrameIds')
        = IdSet(UpSelection(frames, Reversed(selectionBox),
                            selectionBox.startX, selectionBox.startY))

\* C11 (as stated): for any two corner points P and Q the gestures
\* down P / move Q / up Q and down Q / move P / up P select the same set.
C11_AnyCornersSameSelection ==
    [][GestureUp => SameAsReversed]_vars

\* C11 (amended): for any two corner points P and Q at least 5 px apart
\* (a marquee, not a click) the gestures down P / move Q / up Q and
\* down Q / move P / up P select the same set.
C11_MarqueeDirectionIndependent ==
    [][(GestureUp /\ UpDist2 >= 25) => SameAsReversed]_vars

\* a marquee dragged up and to the left, released at the canvas origin, has
\* selected several frames
C11_Witness ==
    /\ ev.kind = "up" /\ ev.type = "marquee" /\ ev.x = 0 /\ ev.y = 0
    /\ Len(selectedFrameIds) > 1

\* C12: a pointer-down with a divider hovered begins a drag on exactly that
\* divider and starts no marquee (isSelecting stays false, selectionBox stays
\* empty); any other pointer-down begins a marquee whose start and current
\* corner are both the pointer position, and sets no drag target.
C12_PointerDownDispatch ==
    [][ev'.kind = "down" =>
          IF hoverTarget # None
          THEN /\ dragTarget' = hoverTarget
               /\ isSelecting' = FALSE
               /\ selectionBox' = NoBox
          ELSE /\ isSelecting' = TRUE
               /\ selectionBox'.set
               /\ selectionBox'.startX = ev'.x /\ selectionBox'.currentX = ev'.x
               /\ selectionBox'.startY = ev'.y /\ selectionBox'.currentY = ev'.y
               /\ dragTarget' = None]_vars

\* a pointer-down on a hovered divider has begun a drag and no marquee
C12_Witness ==
    /\ ev.kind = "down" /\ hoverTarget # None
    /\ dragTarget = hoverTarget /\ ~isSelecting /\ selectionBox = NoBox

\* C13: a pointer-up while a divider is dragged clears the drag target and
\* leaves the selection and the dividers unchanged; a pointer-up while
\* selecting clears the marquee and leaves selecting mode; after any
\* pointer-up neither a drag nor a marquee is in progress.
C13_PointerUpEndsGesture ==
    [][ev'.kind = "up" =>
          /\ dragTarget # None =>
                /\ dragTarget' = None
                /\ selectedFrameIds' = selectedFrameIds
                /\ dividers' = dividers
          /\ (dragTarget = None /\ isSelecting) =>
                selectionBox' = NoBox /\ isSelecting' = FALSE
          /\ dragTarget' = None /\ isSelecting' = FALSE /\ selectionBox' = NoBox]_vars

\* a pointer-up has ended a drag that moved a divider off its default
C13_Witness ==
    /\ ev.kind = "up" /\ ev.type = "drag" /\ dragTarget = None
    /\ ImgReady(img) /\ dividers # resetDividers(grid.rows, grid.cols)

\* target names a divider of the sequences divs
Exists(target, divs) ==
    /\ target.type \in {"v", "h"}
    /\ target.index >= 0
    /\ target.index < Len(IF target.type = "v" THEN divs.v ELSE divs.h)

\* C14: whenever a drag target is set it identifies a divider that exists:
\* its index is within the current length of the divider sequence of its
\* axis.
C14_DragTargetExists == dragTarget # None => Exists(dragTarget, dividers)

\* the divider at normalized position pos of an axis of size pixels lies
\* less than 12 px from the pointer coordinate p
InTolerance(pos, size, p) ==
    /\ ~IsNaN(pos)
    /\ p * Scale - pos * size < 12 * Scale
    /\ pos * size - p * Scale < 12 * Scale

\* C15: a pointer-move that is neither dragging nor selecting sets the hover
\* target to the first divider within the 12 px tolerance of the pointer,
\* vertical dividers in index order before horizontal dividers in index
\* order, and to empty when no divider is within tolerance.
C15_HoverFirstDividerInTolerance ==
    [][(ev'.kind = "move" /\ dragTarget = None /\ ~(isSelecting /\ selectionBox.set)) =>
          LET vs == {i \in 1..Len(dividers.v) :
                        InTolerance(dividers.v[i], CanvasW, ev'.x)}
              hs == {i \in 1..Len(dividers.h) :
                        InTolerance(dividers.h[i], CanvasH, ev'.y)}
          IN IF vs # {}
             THEN /\ hoverTarget'.type = "v"
                  /\ hoverTarget'.index + 1 \in vs
                  /\ \A i \in vs : hoverTarget'.index + 1 <= i
             ELSE IF hs # {}
             THEN /\ hoverTarget'.type = "h"
                  /\ hoverTarget'.index + 1 \in hs
                  /\ \A i \in hs : hoverTarget'.index + 1 <= i
             ELSE hoverTarget' = None]_vars

\* a pointer-move within tolerance of a vertical and of a horizontal divider
\* has set the hover target to the vertical one
C15_Witness ==
    /\ ev.kind = "move" /\ ev.type = "hover" /\ hoverTarget.type = "v"
    /\ \E i \in 1..Len(dividers.h) : InTolerance(dividers.h[i], CanvasH, ev.y)

----------------------------------------------------------------------------
(* Properties: batch mutation and sequence reordering *)

\* C16: setBatchActive(a) sets active = a on every selected frame and
\* updateFrameOffset(axis, delta) adds delta to offsetX (axis x) or offsetY
\* (axis y) of every selected frame; every unselected frame, every other
\* attribute of the selected frames and the selection are unchanged, and
\* with an empty selection both change nothing.
C16_BatchTouchesOnlySelection ==
    [][ev'.kind \in {"active", "offset"} =>
          /\ selectedFrameIds' = selectedFrameIds
          /\ dividers' = dividers /\ grid' = grid
          /\ Len(frames') = Len(frames)
          /\ \A k \in 1..Len(frames) :
                LET f == frames[k]
                IN IF f.id \notin IdSet(selectedFrameIds)
                   THEN frames'[k] = f
                   ELSE IF ev'.kind = "active"
                   THEN frames'[k] = [f EXCEPT !.active = (ev'.x = 1)]
                   ELSE IF ev'.type = "x"
                   THEN frames'[k] = [f EXCEPT !.offsetX = f.offsetX + ev'.x]
                   ELSE frames'[k] = [f EXCEPT !.offsetY = f.offsetY + ev'.x]]_vars

\* an offset step has moved the selected frames and left another frame alone
C16_Witness ==
    /\ ev.kind = "offset" /\ selectedFrameIds # <<>>
    /\ \E k \in 1..Len(frames) :
          frames[k].id \in IdSet(selectedFrameIds) /\ frames[k].offsetX # 0
    /\ \E k \in 1..Len(frames) :
          frames[k].id \notin IdSet(selectedFrameIds) /\ frames[k].offsetX = 0

\* the state InitLoaded starts from, as Spec reaches it
SheetLoaded ==
    /\ steps = 2 /\ ev.kind = "load"
    /\ sourceImage = 1
    /\ img = [src |-> 1, shown |-> 1, loading |-> FALSE]
    /\ onloadDividers = resetDividers(3, 3)
    /\ grid = [rows |-> 3, cols |-> 3]
    /\ dividers = resetDividers(3, 3)
    /\ frames = NewFrames(<<>>, resetDividers(3, 3), ImgWidth(1), ImgHeight(1))
    /\ selectedFrameIds = <<>>
    /\ dragTarget = None /\ hoverTarget = None
    /\ selectionBox = NoBox /\ isSelecting = FALSE
    /\ fps = DEFAULT_FPS /\ isPlaying /\ previewFrameIndex = 0
    /\ interval = [on |-> TRUE, length |-> 9, fps |-> DEFAULT_FPS]
    /\ ~isGenerating /\ generation = "idle" /\ errorMsg = ""
    /\ ~isExporting /\ gifExport = "none"

\* the ids of the frames of seq, in order
Ids(seq) == [n \in 1..Len(seq) |-> seq[n].id]

\* every selected id is the id of an active frame
SelectionAllActive ==
    \A id \in IdSet(selectedFrameIds) :
        \E k \in 1..Len(frames) : frames[k].id = id /\ frames[k].active

\* C17: setBatchActive(false) on a selection whose members were all active
\* removes exactly those members from the active/ordered sequence: its
\* length decreases by the selection size and the remaining frames keep
\* their relative order.
C17_DeactivateRemovesSelection ==
    [][(ev'.kind = "active" /\ ev'.x = 0 /\ SelectionAllActive) =>
          LET before == Ids(SortedActive(frames))
              after == Ids(SortedActive(frames'))
              Stays(id) == id \notin IdSet(selectedFrameIds)
          IN /\ Len(after) = Len(before) - Len(selectedFrameIds)
             /\ after = SelectSeq(before, Stays)]_vars

\* several active frames were selected and deactivated, others still play
C17_Witness ==
    /\ ev.kind = "active" /\ ev.x = 0 /\ Len(selectedFrameIds) > 1
    /\ Len(activeFrames) > 0
    /\ Len(activeFrames) = Len(frames) - Len(selectedFrameIds)

\* the 0-based positions, in the active sequence sorted by sequenceOrder, of
\* the frame with the given id (one position for an active frame, none
\* otherwise)
PositionsOf(id) ==
    {n - 1 : n \in {m \in 1..Len(SortedActive(frames)) : SortedActive(frames)[m].id = id}}

\* exactly one frame is selected, it is active, and its position i in the
\* active sequence has i + direction inside [0, N-1]
CanMove(direction) ==
    /\ Len(selectedFrameIds) = 1
    /\ \E k \in 1..Len(frames) :
          frames[k].id = selectedFrameIds[1] /\ frames[k].active
    /\ \A i \in PositionsOf(selectedFrameIds[1]) :
          i + direction >= 0 /\ i + direction <= Len(SortedActive(frames)) - 1

\* C18: moveFrameInSequence(direction) changes neither the frames nor the
\* selection when the selection is not exactly one frame, the selected frame
\* is inactive, or its position i has i + direction outside [0, N-1].  (The
\* preview index is written by the timer effect alone, which reruns only
\* when the number of active frames changes.)
C18_MoveNoOp ==
    [][(ev'.kind = "seq" /\ ~CanMove(ev'.x)) =>
            frames' = frames /\ selectedFrameIds' = selectedFrameIds]_vars

\* a move was asked for the last frame of the sequence, or for an inactive
\* frame, with other frames active
C18_Witness ==
    /\ ev.kind = "seq" /\ Len(selectedFrameIds) = 1 /\ Len(activeFrames) > 1
    /\ \/ ev.x = 1 /\ activeFrames[Len(activeFrames)].id = selectedFrameIds[1]
       \/ \E k \in 1..Len(frames) :
             frames[k].id = selectedFrameIds[1] /\ ~frames[k].active

\* C19: when exactly one active frame is selected and its position i has
\* i + direction inside [0, N-1], moveFrameInSequence(direction) exchanges
\* the sequenceOrder values of the frames at positions i and i + direction
\* of the active sequence; nothing else of these two frames, no other frame
\* and not the selection changes.
C19_MoveSwapsSequenceOrder ==
    [][(ev'.kind = "seq" /\ CanMove(ev'.x)) =>
          LET act == SortedActive(frames)
              i == CHOOSE p \in PositionsOf(selectedFrameIds[1]) : TRUE
              a == act[i + 1]
              b == act[i + 1 + ev'.x]
          IN /\ selectedFrameIds' = selectedFrameIds
             /\ Len(frames') = Len(frames)
             /\ \A k \in 1..Len(frames) :
                   frames'[k] =
                      IF frames[k].id = a.id
                      THEN [frames[k] EXCEPT !.sequenceOrder = b.sequenceOrder]
                      ELSE IF frames[k].id = b.id
                      THEN [frames[k] EXCEPT !.sequenceOrder = a.sequenceOrder]
                      ELSE frames[k]]_vars

\* on the 3x3 sheet the selected frame and its raster neighbour hold each
\* other's sequenceOrder after a move
C19_Witness ==
    /\ ev.kind = "seq" /\ Len(selectedFrameIds) = 1 /\ Len(frames) = 9
    /\ \E k, j \in 1..Len(frames) :
          /\ frames[k].id = selectedFrameIds[1]
          /\ frames[j].id = frames[k].id + ev.x
          /\ frames[k].sequenceOrder = frames[j].id
          /\ frames[j].sequenceOrder = frames[k].id

\* C20: moveFrameInSequence(+1) followed by moveFrameInSequence(-1) with the
\* same single selected active frame, the +1 step not at the boundary,
\* restores the original sequenceOrder of the frames (stated at the +1
\* step: the -1 move applied to its result gives every frame the
\* sequenceOrder it had before).
C20_MoveThenBackRestores ==
    [][(ev'.kind = "seq" /\ ev'.x = 1 /\ CanMove(1)) =>
          LET back == MovedFrames(frames', selectedFrameIds', 0 - 1)
          IN /\ Len(back) = Len(frames)
             /\ \A k \in 1..Len(frames) :
                   back[k].sequenceOrder = frames[k].sequenceOrder]_vars

----------------------------------------------------------------------------
(* Properties: playback order *)

\* the frame ids of the frames with active = true
ActiveIdsOf(fs) == {fs[k].id : k \in {j \in 1..Len(fs) : fs[j].active}}

ActiveIds == ActiveIdsOf(frames)

\* seq is ordered by sequenceOrder ascending, equal values by id ascending
OrderedBySequence(seq) ==
    \A n, m \in 1..Len(seq) :
       n < m => \/ seq[n].sequenceOrder < seq[m].sequenceOrder
                \/ /\ seq[n].sequenceOrder = seq[m].sequenceOrder
                   /\ seq[n].id < seq[m].id

\* C21: the playback order consists of exactly the frames with active = true,
\* each once, sorted by sequenceOrder ascending with ties broken by raster id;
\* the sequence badges number the frames by their position in this order
\* (the preview and both exports read the same activeFrames).
C21_PlaybackOrder ==
    LET order == activeFrames \o <<>>
        badge == activeFrameMap
    IN /\ IdSet(Ids(order)) = ActiveIds
       /\ Len(order) = Cardinality(ActiveIds)
       /\ \A n \in 1..Len(order) : order[n].active
       /\ OrderedBySequence(order)
       /\ DOMAIN badge = ActiveIds
       /\ \A n \in 1..Len(order) : badge[order[n].id] = n

\* a frame was deactivated while two active frames carry the same
\* sequenceOrder
C21_Witness ==
    /\ ev.kind = "active" /\ ev.x = 0
    /\ Len(activeFrames) < Len(frames)
    /\ \E n \in 1..(Len(activeFrames) - 1) :
          activeFrames[n].sequenceOrder = activeFrames[n + 1].sequenceOrder

\* C22: the sequenceOrder values of the frames are pairwise distinct.
C22_SequenceOrdersDistinct ==
    \A k, j \in 1..Len(frames) :
       k # j => frames[k].sequenceOrder # frames[j].sequenceOrder

----------------------------------------------------------------------------
(* Properties: preview *)

\* C23: a timer tick happens while playing with N > 0 active frames and sets
\* the preview index to (current + 1) mod N; after N ticks in a row (N
\* unchanged) the index is back at the value it had before the first of them.
C23_TickAdvancesModN ==
    [][ev'.kind = "tick" =>
          /\ isPlaying /\ Len(activeFrames) > 0
          /\ previewFrameIndex' = (previewFrameIndex + 1) % Len(activeFrames)
          /\ ev'.x = Len(activeFrames) => previewFrameIndex' = ev'.y]_vars

\* four ticks in a row on a sequence of four frames
C23_Witness ==
    /\ ev.kind = "tick" /\ ev.x = 4 /\ Len(activeFrames) = 4
    /\ isPlaying /\ previewFrameIndex = ev.y

\* C24: when a step leaves the preview playing on a non-empty sequence that
\* the current index is out of range for (index >= N), the step resets the
\* index to 0; every timer tick therefore starts from an index in range.
C24_OutOfRangeResetBeforeTick ==
    [][/\ (ev'.kind # "tick" /\ isPlaying' /\ Len(activeFrames') > 0
              /\ previewFrameIndex >= Len(activeFrames'))
          => previewFrameIndex' = 0
       /\ ev'.kind = "tick" => previewFrameIndex < Len(activeFrames)]_vars

\* a resize while playing shrank the sequence to no more frames than the
\* index it arrived at, and left the index at 0
C24_Witness ==
    /\ ev.kind = "grid" /\ isPlaying
    /\ Len(activeFrames) > 0 /\ ev.i >= Len(activeFrames)
    /\ previewFrameIndex = 0

\* C25: the preview renderer never reads outside the playback sequence, and
\* when the preview index is out of range for it (index >= N > 0), playing
\* or paused, it reads index 0.
C25_OutOfRangeReadsFirst ==
    Len(activeFrames) > 0 =>
       /\ safeIndex >= 0 /\ safeIndex < Len(activeFrames)
       /\ previewFrameIndex >= Len(activeFrames) => safeIndex = 0

\* C26: a timer tick happens only while playing with N > 0; a step taken
\* while paused or while the sequence is empty is no tick and changes the
\* preview index at most by the reset to 0; isPlaying is a boolean that only
\* the play/pause control changes.
C26_AdvanceOnlyWhilePlaying ==
    [][/\ ev'.kind = "tick" => isPlaying /\ Len(activeFrames) > 0
       /\ ((~isPlaying \/ Len(activeFrames) = 0)
              /\ previewFrameIndex' # previewFrameIndex)
          => ev'.kind # "tick" /\ previewFrameIndex' = 0
       /\ isPlaying' \in BOOLEAN
       /\ isPlaying' # isPlaying => ev'.kind = "play"]_vars

\* paused after at least one tick, a later step left the index where the
\* pause found it
C26_Witness ==
    /\ ~isPlaying /\ ~interval.on /\ ev.kind # "play"
    /\ previewFrameIndex > 0 /\ previewFrameIndex = ev.i
    /\ Len(activeFrames) > 0

\* C27: a change of fps, and a change of the active set after which the
\* current index is still in range, leave the preview index as it was; when
\* the preview is playing on a non-empty sequence the timer then runs with
\* the new fps and the new length.
C27_RestartKeepsIndex ==
    [][(\/ ev'.kind = "fps"
        \/ /\ ev'.kind # "tick"
           /\ ActiveIdsOf(frames') # ActiveIdsOf(frames)
           /\ previewFrameIndex < Len(activeFrames'))
       => /\ previewFrameIndex' = previewFrameIndex
          /\ (isPlaying' /\ Len(activeFrames') > 0) =>
                interval' = [on |-> TRUE, length |-> Len(activeFrames'),
                             fps |-> fps']]_vars

\* the fps was changed to 12 while the preview was playing at an index
\* other than 0: the index is kept and the timer runs at 12
C27_Witness ==
    /\ ev.kind = "fps" /\ ev.x = 12 /\ isPlaying
    /\ interval = [on |-> TRUE, length |-> Len(activeFrames), fps |-> 12]
    /\ previewFrameIndex > 0 /\ previewFrameIndex = ev.i

\* C28: fps is a positive integer in every reachable state, and so is the
\* fps a running timer was started with.
C28_FpsPositive == fps >= 1 /\ (interval.on => interval.fps >= 1)

----------------------------------------------------------------------------
(* Properties: image source and frame ids *)

\* the rectangles of a frame list
Rects(fs) == [k \in 1..Len(fs) |-> <<fs[k].x, fs[k].y, fs[k].width, fs[k].height>>]

\* the rectangles the dividers divs cut out of image i
RectsOf(divs, i) == Rects(NewFrames(<<>>, divs, ImgWidth(i), ImgHeight(i)))

\* C29: once the image element has finished loading, the frame list is cut
\* from the dimensions of the image set last (by the current dividers or by
\* those the load callback holds), also when that image replaced another
\* one that was still loading.
C29_FramesFromLastImage ==
    ImgReady(img) =>
       /\ img.src = sourceImage
       /\ \/ Rects(frames) = RectsOf(dividers, img.src)
          \/ Rects(frames) = RectsOf(onloadDividers, img.src)

\* image 2 replaced a source that was still loading, then finished loading:
\* the frames span its 60x120 pixels
C29_Witness ==
    /\ ev.kind = "load" /\ ev.type = "last" /\ img.src = 2 /\ ImgReady(img)
    /\ Len(frames) = 9
    /\ frames[9].x + frames[9].width = Scale * 60
    /\ frames[9].y + frames[9].height = Scale * 120

\* the number of columns of the frame list
FrameCols == Cardinality({frames[k].col : k \in 1..Len(frames)})

\* C30: with C columns in the frame list, the frame at list position k
\* (from 0) has id = k, row = k div C and col = k mod C; ids are unique and
\* contiguous from 0.
C30_RasterIds ==
    /\ \A k \in 1..Len(frames) :
          /\ frames[k].id = k - 1
          /\ frames[k].row = (k - 1) \div FrameCols
          /\ frames[k].col = (k - 1) % FrameCols
    /\ IdSet(Ids(frames)) = 0..(Len(frames) - 1)
    /\ Cardinality(IdSet(Ids(frames))) = Len(frames)

\* a 3x2 sheet after a resize and a sequence move: six frames, two columns
C30_Witness ==
    /\ ev.kind = "seq" /\ Len(frames) = 6 /\ FrameCols = 2
    /\ frames[4].id = 3 /\ frames[4].row = 1 /\ frames[4].col = 1
    /\ \E k \in 1..Len(frames) : frames[k].sequenceOrder # frames[k].id

----------------------------------------------------------------------------
(* Properties: consistency of the editing state *)

\* C33: whenever the image is ready, the frame rectangles are the ones the
\* current dividers cut out of it.
C33_FramesAgreeWithDividers ==
    ImgReady(img) => Rects(frames) = RectsOf(dividers, img.src)

\* C34: dividers.v has grid.cols - 1 entries and dividers.h has grid.rows - 1
\* entries, all of them defined numbers.
C34_DividersMatchGrid ==
    /\ Len(dividers.v) = grid.cols - 1
    /\ Len(dividers.h) = grid.rows - 1
    /\ \A n \in 1..Len(dividers.v) : ~IsNaN(dividers.v[n])
    /\ \A n \in 1..Len(dividers.h) : ~IsNaN(dividers.h[n])

\* C35: selectedFrameIds contains no duplicates and each of its elements is
\* the id of a frame in the current frame list.
C35_SelectionRefersToFrames ==
    /\ IdSet(selectedFrameIds) \subseteq IdSet(Ids(frames))
    /\ Cardinality(IdSet(selectedFrameIds)) = Len(selectedFrameIds)

\* a marquee released over several frames
C35_Witness ==
    /\ ev.kind = "up" /\ ev.type = "marquee"
    /\ Len(selectedFrameIds) >= 2 /\ Len(frames) >= 2

\* C37: a divider drag and a marquee are never in progress at the same time,
\* and isSelecting is true exactly when selectionBox is present.
C37_ModesExclusive ==
    /\ ~(dragTarget # None /\ isSelecting)
    /\ isSelecting <=> selectionBox.set

\* a marquee being dragged out, and no divider drag
C37_Witness ==
    /\ ev.kind = "move" /\ ev.type = "select"
    /\ isSelecting /\ selectionBox.set /\ dragTarget = None
    /\ (selectionBox.currentX # selectionBox.startX
          \/ selectionBox.currentY # selectionBox.startY)

\* C38: pointer-leave clears the drag target, the hover target and the
\* marquee and leaves selecting mode; the selection, the frames and the
\* dividers stay as they were.
C38_LeaveAborts ==
    [][ev'.kind = "leave" =>
          /\ dragTarget' = None /\ hoverTarget' = None
          /\ selectionBox' = NoBox /\ ~isSelecting'
          /\ selectedFrameIds' = selectedFrameIds
          /\ frames' = frames
          /\ dividers' = dividers]_vars

\* the pointer left during a marquee that was started with frames selected:
\* the marquee is gone and the earlier selection is still there
C38_Witness ==
    /\ ev.kind = "leave" /\ ev.type = "marquee" /\ ev.n > 0
    /\ Len(selectedFrameIds) = ev.n
    /\ ~isSelecting /\ selectionBox = NoBox

\* C36: moveFrameInSequence(direction) on a single selected active frame
\* that is not at the corresponding end of the playback order moves that
\* frame to its previous position + direction, and the frame that was there
\* to the previous position of the moved frame.
C36_MoveShiftsPosition ==
    [][\A direction \in {0 - 1, 1} :
          (ev'.kind = "seq" /\ ev'.x = direction /\ CanMove(direction)) =>
             LET before == Ids(activeFrames \o <<>>)
                 after == Ids(SortedActive(frames') \o <<>>)
                 i == CHOOSE n \in 1..Len(before) : before[n] = selectedFrameIds[1]
             IN /\ Len(after) = Len(before)
                /\ after[i + direction] = before[i]
                /\ after[i] = before[i + direction]]_vars

\* C39: with the image ready every frame has strictly positive width and
\* height; a click at a pointer position with 0 <= x < imgWidth and
\* 0 <= y < imgHeight is contained in exactly one frame and selects its id,
\* and a click at x = imgWidth or y = imgHeight selects none.
C39_FramesTileImage ==
    ImgReady(img) =>
       /\ \A k \in 1..Len(frames) :
             Gt(frames[k].width, 0) /\ Gt(frames[k].height, 0)
       /\ \A p \in Points :
             LET inside == {k \in 1..Len(frames) : Inside(frames[k], p[1], p[2])}
             IN IF p[1] < ImgWidth(img.src) /\ p[2] < ImgHeight(img.src)
                THEN /\ Cardinality(inside) = 1
                     /\ Len(ClickSelection(frames, p[1], p[2])) = 1
                ELSE /\ inside = {}
                     /\ ClickSelection(frames, p[1], p[2]) = <<>>

----------------------------------------------------------------------------
(* Properties: redraw, generation and export *)

\* C31: the redraw pass and the preview timer are read-only on the model:
\* drawEditor changes none of dividers, frames, selection, hover target and
\* drag target (nor anything else of the component state), and a preview
\* timer tick changes only the preview index.
C31_RedrawAndTickReadOnly ==
    [][/\ ev'.kind = "draw" =>
             UNCHANGED <<sourceImage, img, grid, dividers, frames,
                         selectedFrameIds, dragTarget, hoverTarget,
                         selectionBox, isSelecting, fps, isPlaying,
                         previewFrameIndex, interval>>
       /\ ev'.kind = "tick" =>
             UNCHANGED <<sourceImage, img, grid, dividers, frames,
                         selectedFrameIds, dragTarget, hoverTarget,
                         selectionBox, isSelecting, fps, isPlaying,
                         interval>>]_vars

\* a redraw with a hovered divider, a selected frame and a preview that has
\* advanced
C31_Witness ==
    /\ ev.kind = "draw"
    /\ hoverTarget # None
    /\ Len(selectedFrameIds) > 0
    /\ previewFrameIndex > 0

\* C32: if generateSpriteSheet fails, handleGenerate records an error
\* message and leaves sourceImage, grid, dividers, frames and selection
\* unchanged; whether generation succeeds or fails, isGenerating is
\* eventually false again.
C32_GenerationFailureTolerated ==
    /\ [][(generation = "pending" /\ ev'.kind = "generateFailed") =>
             /\ errorMsg' # ""
             /\ UNCHANGED <<sourceImage, img, grid, dividers, frames,
                            selectedFrameIds>>]_vars
    /\ (isGenerating ~> ~isGenerating)

\* a failed generation on a sheet with a selected frame
C32_Witness ==
    /\ ev.kind = "generateFailed"
    /\ errorMsg # ""
    /\ ~isGenerating
    /\ Len(selectedFrameIds) > 0
    /\ sourceImage = 1

\* C40: handleExportGif with no active frames or an image that is not ready
\* does not start an export (isExporting stays false); if fetching the worker
\* script fails isExporting is reset to false; isExporting is true only
\* between the start of an export and its 'finished' event or failure; and
\* frames, dividers and selection are never changed by exporting.
C40_ExportGuardedAndReleased ==
    [][/\ (ev'.kind = "exportGif" /\ steps' # steps
           /\ (ActiveCount(frames) = 0 \/ ~ImgReady(img))) =>
             ~isExporting /\ ~isExporting'
       /\ (gifExport = "fetching" /\ ev'.kind = "exportFailed") => ~isExporting'
       /\ (~isExporting /\ isExporting') =>
             ev'.kind = "exportGif" /\ ev'.type = "start"
       /\ (isExporting /\ isExporting') =>
             ev'.kind \notin {"exportFailed", "exportFinished"}
       /\ (isExporting /\ ~isExporting') =>
             ev'.kind \in {"exportFailed", "exportFinished"}
       /\ ev'.kind \in {"exportGif", "exportFetched", "exportFailed",
                         "exportFinished"} =>
             UNCHANGED <<frames, dividers, selectedFrameIds>>]_vars

\* an export refused because the newly uploaded image has not loaded yet,
\* while the frames of the previous image are still active
C40_Witness ==
    /\ ev.kind = "exportGif"
    /\ ev.type = "refused"
    /\ ~ImgReady(img)
    /\ ActiveCount(frames) > 0
    /\ ~isExporting

============================================================================
